---- MODULE Spec2Model ----
(***************************************************************************)
(* Financial chatbot microservice (src/main.py): the chats and             *)
(* chat_messages tables and the five HTTP handlers, each split at its      *)
(* execute_query calls.  Every execute_query opens its own connection and  *)
(* commits on its own (lines 86-100), so one statement is one atomic step  *)
(* and the statements of overlapping requests interleave freely.           *)
(***************************************************************************)
EXTENDS Integers, Sequences, FiniteSets, TLC

(* ------------------------------ bounds --------------------------------- *)
\* number of requests that may pass their handler's checks
MaxReqs == 2
\* number of chat ids that start_chat may hand out and requests may name
MaxChats == 2

\* request slots: requests served at the same time
Procs == {1, 2}
\* rows of the external users table (never written here)
Users == {1, 2}
\* a request without user_id (None, or an empty query parameter)
NoUser == 0
\* an id with no row in users
Stranger == 3
\* request texts: "" stands for a missing or empty message
Texts == {"", "q"}
\* what the completion service may answer
Replies == {"r"}
\* SQL NULL / Python None for a text column
Null == "NULL"

(* ---------------------------- program texts ---------------------------- *)
Title == "New Financial Chat"
Greeting == "Hello! I'm your financial assistant. How can I help you with your finances today?"
Fallback == "I'm sorry, I'm having trouble processing your request right now. Please try again later."

VARIABLES
  chats,          \* table chats: chat_id -> row
  chat_messages,  \* table chat_messages: rows in insertion order
  clock,          \* datetime.datetime.now(), in ticks of its resolution
  next_chat,      \* uuid4: the next unused chat_id
  nreqs,          \* requests that passed their handler's checks so far
  req,            \* per slot: the request being served and its locals
  resp            \* the response this step sent, with the request it answers

vars == <<chats, chat_messages, clock, next_chat, nreqs, req, resp>>

ChatIds == 1..MaxChats

(* ------------------------- values read from MySQL ---------------------- *)
\* pymysql hands a BIT(1) column back as a one-byte bytes object
Bit(b) == <<b>>

\* Python truth value of a bytes object: true unless it is empty
Truthy(bytes) == Len(bytes) > 0

\* Python type of each selected column as pymysql decodes it
ColumnType ==
  [ chat_id |-> "str", user_id |-> "int", title |-> "str",
    created_at |-> "datetime", updated_at |-> "datetime", is_active |-> "bytes",
    message_id |-> "str", content |-> "str", is_user_message |-> "bytes",
    last_message |-> "str" ]

\* json encoding of one value: the built-in types, plus what default() converts
CustomJSONEncoder(type) ==
  \/ type \in {"str", "int", "NoneType", "bool", "float", "list", "dict"}
  \/ type \in {"Decimal", "datetime"}

\* jsonify of a payload holding values of these columns: TRUE when it encodes,
\* FALSE when default() raises TypeError (the request then ends in a 500)
jsonify(columns) == \A c \in columns : CustomJSONEncoder(ColumnType[c])

(* ------------------------------ queries -------------------------------- *)
Min(S) == CHOOSE x \in S : \A y \in S : x <= y
Max(S) == CHOOSE x \in S : \A y \in S : x >= y

\* ORDER BY key ASC over the elements of S: every order MySQL may return,
\* rows with equal keys coming in any order
RECURSIVE OrderBy(_, _)
OrderBy(S, key) ==
  IF S = {} THEN {<<>>}
  ELSE LET m == Min({key[x] : x \in S})
       IN  UNION { { <<x>> \o t : t \in OrderBy(S \ {x}, key) }
                   : x \in {y \in S : key[y] = m} }

\* positions in chat_messages of the rows WHERE chat_id = c
MessagesOf(c) == {i \in 1..Len(chat_messages) : chat_messages[i].chat_id = c}

\* mutant: the user check finds a row for every id
SelectUser_any(user_id) == user_id = user_id

\* SELECT id FROM users WHERE id = user_id
SelectUser(user_id) == user_id \in Users

\* a chats row as a DictCursor returns it
ChatRow(c) ==
  [ chat_id |-> c, user_id |-> chats[c].user_id, title |-> chats[c].title,
    created_at |-> chats[c].created_at, updated_at |-> chats[c].updated_at,
    is_active |-> Bit(chats[c].is_active) ]

\* mutant: the statement without its is_active = 1 condition
SelectActiveChat_any_state(chat_id, user_id) ==
  IF /\ chat_id \in DOMAIN chats
     /\ chats[chat_id].user_id = user_id
  THEN <<ChatRow(chat_id)>> ELSE <<>>

\* mutant: the statement without its user_id = %s condition
SelectActiveChat_any_user(chat_id, user_id) ==
  IF /\ chat_id \in DOMAIN chats
     /\ chats[chat_id].is_active = 1
  THEN <<ChatRow(chat_id)>> ELSE <<>>

\* SELECT * FROM chats WHERE chat_id = %s AND user_id = %s AND is_active = 1
\* with fetchone: <<>> is None
SelectActiveChat(chat_id, user_id) ==
  IF /\ chat_id \in DOMAIN chats
     /\ chats[chat_id].user_id = user_id
     /\ chats[chat_id].is_active = 1
  THEN <<ChatRow(chat_id)>> ELSE <<>>

\* SELECT * FROM chats WHERE chat_id = %s AND user_id = %s, with fetchone
SelectChat(chat_id, user_id) ==
  IF /\ chat_id \in DOMAIN chats
     /\ chats[chat_id].user_id = user_id
  THEN <<ChatRow(chat_id)>> ELSE <<>>

(* ------------------------------ requests ------------------------------- *)
NoRequest ==
  [ op |-> "none", pc |-> "idle", rid |-> 0, chat_id |-> 0, user_id |-> NoUser,
    user_message |-> "", now |-> 0, chat |-> <<>>, rows |-> <<>>,
    formatted_messages |-> <<>>, assistant_response |-> "",
    user_message_id |-> 0, assistant_message_id |-> 0, status |-> 0 ]

\* a fresh request record in a free slot
Request(op, chat_id, user_id, user_message) ==
  [NoRequest EXCEPT !.op = op, !.chat_id = chat_id,
                    !.user_id = user_id, !.user_message = user_message]

\* no response is on its way out
Quiet == resp = NoRequest

\* the slot is free: a request may arrive (in the first free slot: the slots
\* are interchangeable)
Free(p) == Quiet /\ req[p].pc = "idle" /\ \A q \in Procs : q < p => req[q].pc # "idle"

\* slot p serves a request of handler op and stands at pc
At(p, op, pc) == Quiet /\ req[p].op = op /\ req[p].pc = pc

\* a client can name this chat_id: it is not the uuid4 of a start_chat still
\* being served, which no one has seen before the response of lines 182-185
Nameable(chat_id) ==
  \A q \in Procs : ~(req[q].op = "start_chat" /\ req[q].chat_id = chat_id)

\* the handler goes on with locals r
Continue(p, r) == req' = [req EXCEPT ![p] = r] /\ resp' = NoRequest

\* the request passed the checks of its handler: it is the next one served
Accept(p, r, pc) ==
  /\ nreqs < MaxReqs
  /\ Continue(p, [r EXCEPT !.rid = nreqs + 1, !.pc = pc])
  /\ nreqs' = nreqs + 1

\* the handler returns: the response leaves with this status and frees the slot
Respond(p, r, status) ==
  /\ req' = [req EXCEPT ![p] = NoRequest]
  /\ resp' = [r EXCEPT !.pc = "done", !.status = status]

\* the handler returns {"error": ...} with this status before it wrote anything
Refuse(p, op, status) ==
  /\ Respond(p, [NoRequest EXCEPT !.op = op], status)
  /\ nreqs' = nreqs

\* a committed statement that wrote timestamp ts took longer than the clock's
\* resolution: every later reading of the clock is above ts
Commit(ts) == clock' = IF ts >= clock THEN ts + 1 ELSE clock

\* datetime.now(): the tick of the latest reading or, time having passed, a
\* later one; a later tick differs from the same tick only for a request in
\* flight that holds the latest reading
Now ==
  {clock} \cup
  {clock + 1 : p \in {q \in Procs : req[q].pc \notin {"idle", "now"} /\ req[q].now = clock}}

Init ==
  /\ chats = <<[user_id |-> 1, title |-> Title, created_at |-> 1, updated_at |-> 1, is_active |-> 1, by |-> 0]>>
  /\ chat_messages = <<[message_id |-> 1, chat_id |-> 1, content |-> Greeting, is_user_message |-> 0, created_at |-> 1, by |-> 0]>>
  /\ clock = 2
  /\ next_chat = 2
  /\ nreqs = 0
  /\ req = [p \in Procs |-> NoRequest]
  /\ resp = NoRequest

(* ------------------------------ start_chat ----------------------------- *)
\* start_chat requests that are past the user check and hold no chat_id yet
Starting == {q \in Procs : req[q].op = "start_chat" /\ req[q].pc = "now"}

\* lines 152-161: validate, SELECT the user
start_chat_select_user(p, user_id) ==
  /\ Free(p)
  /\ LET r == Request("start_chat", 0, user_id, "")
     IN  IF user_id = NoUser THEN Refuse(p, r.op, 400)
         ELSE IF ~SelectUser(user_id) THEN Refuse(p, r.op, 404)
         ELSE /\ next_chat + Cardinality(Starting) <= MaxChats
              /\ Accept(p, r, "now")
  /\ UNCHANGED <<chats, chat_messages, clock, next_chat>>

\* lines 163-165: chat_id = uuid4(), now = datetime.now()
start_chat_now(p) ==
  /\ At(p, "start_chat", "now")
  /\ \E now \in Now :
       /\ Continue(p, [req[p] EXCEPT !.chat_id = next_chat, !.now = now,
                                     !.pc = "insert_chat"])
       /\ clock' = now
  /\ next_chat' = next_chat + 1
  /\ UNCHANGED <<chats, chat_messages, nreqs>>

\* the row of lines 168-171
NewChat(r) ==
  [ user_id |-> r.user_id, title |-> Title, created_at |-> r.now,
    updated_at |-> r.now, is_active |-> 1, by |-> r.rid ]

\* lines 167-171: INSERT INTO chats
start_chat_insert_chat(p) ==
  /\ At(p, "start_chat", "insert_chat")
  /\ chats' = [c \in DOMAIN chats \cup {req[p].chat_id} |->
                 IF c = req[p].chat_id THEN NewChat(req[p]) ELSE chats[c]]
  /\ Commit(req[p].now)
  /\ Continue(p, [req[p] EXCEPT !.pc = "insert_message"])
  /\ UNCHANGED <<chat_messages, next_chat, nreqs>>

\* a chat_messages row; message_id is a fresh uuid4
Message(r, content, is_user_message) ==
  [ message_id |-> Len(chat_messages) + 1, chat_id |-> r.chat_id,
    content |-> content, is_user_message |-> is_user_message,
    created_at |-> r.now, by |-> r.rid ]

\* mutant: the greeting is stamped with a second reading of the clock
start_chat_insert_message_new_now(p) ==
  /\ At(p, "start_chat", "insert_message")
  /\ chat_messages' = Append(chat_messages,
                             [Message(req[p], Greeting, 0) EXCEPT !.created_at = clock])
  /\ Commit(clock)
  /\ Respond(p, [req[p] EXCEPT !.assistant_response = Greeting], 200)
  /\ UNCHANGED <<chats, next_chat, nreqs>>

\* lines 173-185: INSERT the greeting, respond {chat_id, message}
start_chat_insert_message(p) ==
  /\ At(p, "start_chat", "insert_message")
  /\ chat_messages' = Append(chat_messages, Message(req[p], Greeting, 0))
  /\ Commit(req[p].now)
  /\ Respond(p, [req[p] EXCEPT !.assistant_response = Greeting], 200)
  /\ UNCHANGED <<chats, next_chat, nreqs>>

start_chat(p) ==
  \/ \E user_id \in Users \cup {NoUser, Stranger} : start_chat_select_user(p, user_id)
  \/ start_chat_now(p)
  \/ start_chat_insert_chat(p)
  \/ start_chat_insert_message(p)

(* ----------------------------- send_message ---------------------------- *)
\* mutant: the message is not validated before the chat is selected
send_message_select_chat_unvalidated(p, chat_id, user_id, user_message) ==
  /\ Free(p)
  /\ Nameable(chat_id)
  /\ LET r == Request("send_message", chat_id, user_id, user_message)
         chat == SelectActiveChat(chat_id, user_id)
     IN  IF chat = <<>> THEN Refuse(p, r.op, 404)
         ELSE Accept(p, [r EXCEPT !.chat = chat], "now")
  /\ UNCHANGED <<chats, chat_messages, clock, next_chat>>

\* lines 192-207: validate the message, SELECT the active chat of this user
send_message_select_chat(p, chat_id, user_id, user_message) ==
  /\ Free(p)
  /\ Nameable(chat_id)
  /\ LET r == Request("send_message", chat_id, user_id, user_message)
         chat == SelectActiveChat(chat_id, user_id)
     IN  IF user_message = "" THEN Refuse(p, r.op, 400)
         ELSE IF chat = <<>> THEN Refuse(p, r.op, 404)
         ELSE Accept(p, [r EXCEPT !.chat = chat], "now")
  /\ UNCHANGED <<chats, chat_messages, clock, next_chat>>

\* line 209: now = datetime.now()
send_message_now(p) ==
  /\ At(p, "send_message", "now")
  /\ \E now \in Now :
       /\ Continue(p, [req[p] EXCEPT !.now = now, !.pc = "insert_user"])
       /\ clock' = now
  /\ UNCHANGED <<chats, chat_messages, next_chat, nreqs>>

\* lines 215-220: INSERT the user message
send_message_insert_user(p) ==
  /\ At(p, "send_message", "insert_user")
  /\ chat_messages' = Append(chat_messages, Message(req[p], req[p].user_message, 1))
  /\ Commit(req[p].now)
  /\ Continue(p, [req[p] EXCEPT !.user_message_id = Len(chat_messages) + 1,
                                !.pc = "history"])
  /\ UNCHANGED <<chats, next_chat, nreqs>>

\* SELECT content, is_user_message FROM chat_messages WHERE chat_id = %s
\* ORDER BY created_at ASC: the results the statement may give
SelectHistory(chat_id) ==
  LET S == MessagesOf(chat_id)
  IN  { [k \in 1..Len(o) |->
           [ content |-> chat_messages[o[k]].content,
             is_user_message |-> Bit(chat_messages[o[k]].is_user_message) ]]
        : o \in OrderBy(S, [i \in S |-> chat_messages[i].created_at]) }

\* line 241: role = "user" if msg['is_user_message'] else "assistant"
Role(msg) == IF Truthy(msg.is_user_message) THEN "user" ELSE "assistant"

\* lines 231-242: the system entry, then one entry per message read
FormatMessages(messages) ==
  <<[role |-> "system", content |-> "context"]>> \o
  [k \in 1..Len(messages) |-> [role |-> Role(messages[k]), content |-> messages[k].content]]

\* mutant: an exception of the completion call is not caught and ends the
\* request in a 500
send_message_complete_aborts(p) ==
  /\ At(p, "send_message", "history")
  /\ \E messages \in SelectHistory(req[p].chat_id) :
       \/ \E assistant_response \in Replies :
            Continue(p, [req[p] EXCEPT !.formatted_messages = FormatMessages(messages),
                                       !.assistant_response = assistant_response,
                                       !.pc = "insert_assistant"])
       \/ Respond(p, [req[p] EXCEPT !.formatted_messages = FormatMessages(messages)], 500)
  /\ UNCHANGED <<chats, chat_messages, clock, next_chat, nreqs>>

\* lines 222-253: SELECT the history, read the financial context, call the
\* completion service; any exception of the call gives the fallback text
send_message_complete(p) ==
  /\ At(p, "send_message", "history")
  /\ \E messages \in SelectHistory(req[p].chat_id) :
       \E assistant_response \in Replies \cup {Fallback} :
         Continue(p, [req[p] EXCEPT !.formatted_messages = FormatMessages(messages),
                                    !.assistant_response = assistant_response,
                                    !.pc = "insert_assistant"])
  /\ UNCHANGED <<chats, chat_messages, clock, next_chat, nreqs>>

\* mutant: the assistant message is stored with is_user_message = 1
send_message_insert_assistant_as_user(p) ==
  /\ At(p, "send_message", "insert_assistant")
  /\ chat_messages' = Append(chat_messages, Message(req[p], req[p].assistant_response, 1))
  /\ Commit(req[p].now)
  /\ Continue(p, [req[p] EXCEPT !.assistant_message_id = Len(chat_messages) + 1,
                                !.pc = "update"])
  /\ UNCHANGED <<chats, next_chat, nreqs>>

\* lines 255-260: INSERT the assistant message
send_message_insert_assistant(p) ==
  /\ At(p, "send_message", "insert_assistant")
  /\ chat_messages' = Append(chat_messages, Message(req[p], req[p].assistant_response, 0))
  /\ Commit(req[p].now)
  /\ Continue(p, [req[p] EXCEPT !.assistant_message_id = Len(chat_messages) + 1,
                                !.pc = "update"])
  /\ UNCHANGED <<chats, next_chat, nreqs>>

\* mutant: the UPDATE keeps the later of the stored and the new timestamp
send_message_update_greatest(p) ==
  /\ At(p, "send_message", "update")
  /\ chats' = [chats EXCEPT ![req[p].chat_id].updated_at =
                               Max({chats[req[p].chat_id].updated_at, req[p].now})]
  /\ Commit(req[p].now)
  /\ Respond(p, req[p], 200)
  /\ UNCHANGED <<chat_messages, next_chat, nreqs>>

\* mutant: the UPDATE also sets is_active = 1
send_message_update_reactivates(p) ==
  /\ At(p, "send_message", "update")
  /\ chats' = [chats EXCEPT ![req[p].chat_id].updated_at = req[p].now,
                            ![req[p].chat_id].is_active = 1]
  /\ Commit(req[p].now)
  /\ Respond(p, req[p], 200)
  /\ UNCHANGED <<chat_messages, next_chat, nreqs>>

\* lines 262-271: UPDATE chats SET updated_at, respond {message_id, content}
send_message_update(p) ==
  /\ At(p, "send_message", "update")
  /\ chats' = [chats EXCEPT ![req[p].chat_id].updated_at = req[p].now]
  /\ Commit(req[p].now)
  /\ Respond(p, req[p], 200)
  /\ UNCHANGED <<chat_messages, next_chat, nreqs>>

send_message(p) ==
  \/ \E chat_id \in ChatIds, user_id \in Users \cup {NoUser}, user_message \in Texts :
       send_message_select_chat(p, chat_id, user_id, user_message)
  \/ send_message_now(p)
  \/ send_message_insert_user(p)
  \/ send_message_complete(p)
  \/ send_message_insert_assistant(p)
  \/ send_message_update(p)

(* ------------------------------- end_chat ------------------------------ *)
\* lines 279-290: SELECT the active chat of this user
end_chat_select_chat(p, chat_id, user_id) ==
  /\ Free(p)
  /\ Nameable(chat_id)
  /\ LET r == Request("end_chat", chat_id, user_id, "")
         chat == SelectActiveChat(chat_id, user_id)
     IN  IF chat = <<>> THEN Refuse(p, r.op, 404)
         ELSE Accept(p, r, "now")
  /\ UNCHANGED <<chats, chat_messages, clock, next_chat>>

\* line 293: now = datetime.now()
end_chat_now(p) ==
  /\ At(p, "end_chat", "now")
  /\ \E now \in Now :
       /\ Continue(p, [req[p] EXCEPT !.now = now, !.pc = "update"])
       /\ clock' = now
  /\ UNCHANGED <<chats, chat_messages, next_chat, nreqs>>

\* mutant: the UPDATE sets updated_at only
end_chat_update_keeps_active(p) ==
  /\ At(p, "end_chat", "update")
  /\ chats' = [chats EXCEPT ![req[p].chat_id].updated_at = req[p].now]
  /\ Commit(req[p].now)
  /\ Respond(p, req[p], 200)
  /\ UNCHANGED <<chat_messages, next_chat, nreqs>>

\* lines 294-299: UPDATE chats SET is_active = 0, updated_at; respond success
end_chat_update(p) ==
  /\ At(p, "end_chat", "update")
  /\ chats' = [chats EXCEPT ![req[p].chat_id].is_active = 0,
                            ![req[p].chat_id].updated_at = req[p].now]
  /\ Commit(req[p].now)
  /\ Respond(p, req[p], 200)
  /\ UNCHANGED <<chat_messages, next_chat, nreqs>>

end_chat(p) ==
  \/ \E chat_id \in ChatIds, user_id \in Users \cup {NoUser} :
       end_chat_select_chat(p, chat_id, user_id)
  \/ end_chat_now(p)
  \/ end_chat_update(p)

(* ----------------------------- get_user_chats -------------------------- *)
\* (SELECT content FROM chat_messages WHERE chat_id = c.chat_id
\*  ORDER BY created_at DESC LIMIT 1): the contents the subquery may give
LastMessage(c) ==
  LET S == MessagesOf(c)
  IN  IF S = {} THEN {Null}
      ELSE { chat_messages[i].content :
               i \in {j \in S : chat_messages[j].created_at
                                  = Max({chat_messages[k].created_at : k \in S})} }

\* lines 311-322: the chats of the user ORDER BY updated_at DESC, each with
\* its last message: the results the statement may give
SelectUserChats(user_id) ==
  LET S == {c \in DOMAIN chats : chats[c].user_id = user_id}
      T == UNION {LastMessage(c) : c \in S}
  IN  UNION { { [k \in 1..Len(o) |->
                   [ chat_id |-> o[k], title |-> chats[o[k]].title,
                     created_at |-> chats[o[k]].created_at,
                     updated_at |-> chats[o[k]].updated_at,
                     is_active |-> Bit(chats[o[k]].is_active),
                     last_message |-> last[o[k]] ]]
                : last \in {f \in [S -> T] : \A c \in S : f[c] \in LastMessage(c)} }
              : o \in OrderBy(S, [c \in S |-> 0 - chats[c].updated_at]) }

\* the columns of the values in the payload {"chats": chats}
UserChatsPayload(rows) ==
  IF rows = <<>> THEN {}
  ELSE {"chat_id", "title", "created_at", "updated_at", "is_active", "last_message"}

\* lines 306-324: validate, SELECT, respond {chats}
get_user_chats(p, user_id) ==
  /\ Free(p)
  /\ LET r == Request("get_user_chats", 0, user_id, "")
     IN  IF user_id = NoUser THEN Refuse(p, r.op, 400)
         ELSE /\ \E rows \in SelectUserChats(user_id) :
                   Respond(p, [r EXCEPT !.rows = rows],
                           IF jsonify(UserChatsPayload(rows)) THEN 200 ELSE 500)
              /\ nreqs' = nreqs
  /\ UNCHANGED <<chats, chat_messages, clock, next_chat>>

(* --------------------------- get_chat_messages ------------------------- *)
\* lines 331-344: validate, SELECT the chat of this user
get_chat_messages_select_chat(p, chat_id, user_id) ==
  /\ Free(p)
  /\ Nameable(chat_id)
  /\ LET r == Request("get_chat_messages", chat_id, user_id, "")
         chat == SelectChat(chat_id, user_id)
     IN  IF user_id = NoUser THEN Refuse(p, r.op, 400)
         ELSE IF chat = <<>> THEN Refuse(p, r.op, 404)
         ELSE Accept(p, [r EXCEPT !.chat = <<[title |-> chat[1].title,
                                               is_active |-> chat[1].is_active]>>],
                     "select_messages")
  /\ UNCHANGED <<chats, chat_messages, clock, next_chat>>

\* SELECT message_id, content, is_user_message, created_at FROM chat_messages
\* WHERE chat_id = %s ORDER BY created_at ASC: the results it may give
SelectMessages(chat_id) ==
  LET S == MessagesOf(chat_id)
  IN  { [k \in 1..Len(o) |->
           [ message_id |-> chat_messages[o[k]].message_id,
             content |-> chat_messages[o[k]].content,
             is_user_message |-> Bit(chat_messages[o[k]].is_user_message),
             created_at |-> chat_messages[o[k]].created_at ]]
        : o \in OrderBy(S, [i \in S |-> chat_messages[i].created_at]) }

\* the columns of the values in the payload {chat_id, title, is_active, messages}
ChatMessagesPayload(rows) ==
  {"chat_id", "title", "is_active"} \cup
  (IF rows = <<>> THEN {}
   ELSE {"message_id", "content", "is_user_message", "created_at"})

\* lines 346-357: SELECT the messages, respond {chat_id, title, is_active, messages}
get_chat_messages_select_messages(p) ==
  /\ At(p, "get_chat_messages", "select_messages")
  /\ \E rows \in SelectMessages(req[p].chat_id) :
       Respond(p, [req[p] EXCEPT !.rows = rows],
               IF jsonify(ChatMessagesPayload(rows)) THEN 200 ELSE 500)
  /\ UNCHANGED <<chats, chat_messages, clock, next_chat, nreqs>>

get_chat_messages(p) ==
  \/ \E chat_id \in ChatIds, user_id \in Users \cup {NoUser} :
       get_chat_messages_select_chat(p, chat_id, user_id)
  \/ get_chat_messages_select_messages(p)

\* lines 360-361: the response goes back to the caller
lambda_handler ==
  /\ ~Quiet
  /\ resp' = NoRequest
  /\ UNCHANGED <<chats, chat_messages, clock, next_chat, nreqs, req>>

Next ==
  \/ \E p \in Procs : start_chat(p)
  \/ \E p \in Procs : send_message(p)
  \/ \E p \in Procs : end_chat(p)
  \/ \E p \in Procs, user_id \in Users \cup {NoUser} : get_user_chats(p, user_id)
  \/ \E p \in Procs : get_chat_messages(p)
  \/ lambda_handler

Spec == Init /\ [][Next]_vars

(* -------------------------- data-access failures ---------------------- *)
\* the statements a handler runs after it has written something: the request
\* stands at pc before the statement
Statements ==
  [ start_chat |-> {"insert_message"},
    send_message |-> {"history", "insert_assistant", "update"} ]

\* no other request is being served
Alone(p) == \A q \in Procs \ {p} : req[q].pc = "idle"

\* mutant: the failure takes back the message rows the request had inserted
execute_query_fails_rolls_back(p) ==
  /\ Quiet
  /\ req[p].op \in DOMAIN Statements
  /\ req[p].pc \in Statements[req[p].op]
  /\ Alone(p)
  /\ Respond(p, req[p], 500)
  /\ chat_messages' = SelectSeq(chat_messages, LAMBDA m : m.by # req[p].rid)
  /\ UNCHANGED <<chats, clock, next_chat, nreqs>>

\* lines 86-100: connect or execute raises; nothing catches it, the request
\* ends in a 500 and what its earlier statements committed stays as it is.
\* The failure is taken for a request that has written something and that no
\* other request overlaps; the requests that come later may overlap each other.
execute_query_fails(p) ==
  /\ Quiet
  /\ req[p].op \in DOMAIN Statements
  /\ req[p].pc \in Statements[req[p].op]
  /\ Alone(p)
  /\ Respond(p, req[p], 500)
  /\ UNCHANGED <<chats, chat_messages, clock, next_chat, nreqs>>

NextFail ==
  \/ Next
  \/ \E p \in Procs : execute_query_fails(p)

\* the service with statements that may fail
SpecFail == Init /\ [][NextFail]_vars

(* ------------------------------- claims -------------------------------- *)
\* the request names a chat that is missing, not the user's, or inactive
BadTarget(chat_id, user_id) ==
  \/ chat_id \notin DOMAIN chats
  \/ chats[chat_id].user_id # user_id
  \/ chats[chat_id].is_active = 0

\* the step writes neither table
TablesUnchanged == chats' = chats /\ chat_messages' = chat_messages

\* the step is one of slot p
StepOf(p) == req'[p] # req[p]

\* the step takes in a request of handler op: it is refused at once, or it
\* passes the handler's checks and occupies a slot
Arrives(op) ==
  \/ resp'.op = op /\ resp'.rid = 0
  \/ \E p \in Procs : req[p].pc = "idle" /\ req'[p].op = op

\* C1: a chat only goes from nonexistent to active, by start_chat's INSERT, and
\* from active to inactive, by end_chat's UPDATE; an inactive chat never becomes
\* active again and a chat row is never removed
C1_Lifecycle ==
  [][\A c \in ChatIds :
       /\ c \in DOMAIN chats => c \in DOMAIN chats'
       /\ (c \in DOMAIN chats /\ chats[c].is_active = 0) => chats'[c].is_active = 0
       /\ (c \notin DOMAIN chats /\ c \in DOMAIN chats') =>
            /\ chats'[c].is_active = 1
            /\ \E p \in Procs : At(p, "start_chat", "insert_chat") /\ req[p].chat_id = c
       /\ (c \in DOMAIN chats /\ chats[c].is_active = 1 /\ chats'[c].is_active = 0) =>
            \E p \in Procs : At(p, "end_chat", "update") /\ req[p].chat_id = c
    ]_vars

\* C1 witness: a chat that start_chat created has been ended
C1_Witness ==
  \E c \in DOMAIN chats : chats[c].by > 0 /\ chats[c].is_active = 0

\* the step answers a send_message with this status and writes nothing
Refused(status) ==
  /\ resp'.op = "send_message" /\ resp'.status = status
  /\ TablesUnchanged
  /\ req' = req

\* the step takes in a send_message with message m that names a missing,
\* foreign or inactive chat
BadSend(m) ==
  \E p \in Procs, c \in ChatIds, u \in Users \cup {NoUser} :
    BadTarget(c, u) /\ send_message_select_chat(p, c, u, m)

\* C2 as stated: whatever its message is, a send_message on a missing, foreign
\* or inactive chat is answered 404 and writes nothing
C2_Always404 ==
  [][Arrives("send_message") =>
       \A m \in Texts : Refused(404) \/ ~BadSend(m)]_vars

\* C2 amended: a send_message on a missing, foreign or inactive chat is answered
\* 404 when it carries a message and 400 when it carries none, and writes
\* nothing in either case
C2_Refused ==
  [][Arrives("send_message") =>
       \A m \in Texts : Refused(IF m = "" THEN 400 ELSE 404) \/ ~BadSend(m)]_vars

\* C2 witness: a send_message was answered 404 when every chat there is was
\* inactive
C2_Witness ==
  /\ resp.op = "send_message" /\ resp.status = 404
  /\ \A c \in DOMAIN chats : chats[c].is_active = 0

\* C3 as stated: once a chat is inactive no message row is added to it and its
\* updated_at is not written again
C3_InactiveIsTerminal ==
  [][\A c \in DOMAIN chats :
       chats[c].is_active = 0 =>
         /\ {i \in 1..Len(chat_messages') : chat_messages'[i].chat_id = c} = MessagesOf(c)
         /\ chats'[c].updated_at = chats[c].updated_at
    ]_vars

\* positions of the rows a request wrote
RowsBy(rid) == {i \in 1..Len(chat_messages) : chat_messages[i].by = rid}

\* C4: when send_message answers 200, the rows it inserted are exactly two, the
\* user row with the request text and after it the assistant row with the
\* returned content, both in the chat named, and the chat's updated_at is above
\* the value the handler found when it selected the chat
C4_SendInsertsTwo ==
  (resp.op = "send_message" /\ resp.status = 200) =>
     /\ RowsBy(resp.rid) = {resp.user_message_id, resp.assistant_message_id}
     /\ resp.user_message_id < resp.assistant_message_id
     /\ LET user == chat_messages[resp.user_message_id]
            assistant == chat_messages[resp.assistant_message_id]
        IN  /\ user.chat_id = resp.chat_id /\ assistant.chat_id = resp.chat_id
            /\ user.is_user_message = 1 /\ user.content = resp.user_message
            /\ assistant.is_user_message = 0
            /\ assistant.content = resp.assistant_response
            /\ resp.user_message # ""
     /\ chats[resp.chat_id].updated_at > resp.chat[1].updated_at

\* C4 witness: a send_message was answered 200
C4_Witness == resp.op = "send_message" /\ resp.status = 200

\* C5: start_chat's INSERT adds one chat row of the user, titled "New Financial
\* Chat", active, created_at = updated_at; when start_chat answers 200 that row
\* is the only chat row it wrote, the only message row it wrote is the
\* assistant's greeting with the chat's created_at, and the response carries
\* the chat_id and the greeting
C5_StartCreatesOne ==
  [][/\ \A p \in Procs :
          (At(p, "start_chat", "insert_chat") /\ StepOf(p)) =>
             LET c == req[p].chat_id
             IN  /\ c \notin DOMAIN chats
                 /\ DOMAIN chats' = DOMAIN chats \cup {c}
                 /\ \A d \in DOMAIN chats : chats'[d] = chats[d]
                 /\ chats'[c].user_id = req[p].user_id
                 /\ chats'[c].title = Title
                 /\ chats'[c].is_active = 1
                 /\ chats'[c].created_at = chats'[c].updated_at
                 /\ chat_messages' = chat_messages
     /\ (resp'.op = "start_chat" /\ resp'.status = 200) =>
          LET c == resp'.chat_id
              mine == {i \in 1..Len(chat_messages') : chat_messages'[i].by = resp'.rid}
          IN  /\ {d \in DOMAIN chats' : chats'[d].by = resp'.rid} = {c}
              /\ chats'[c].user_id = resp'.user_id
              /\ chats'[c].user_id \in Users
              /\ Cardinality(mine) = 1
              /\ \A i \in mine :
                   /\ chat_messages'[i].chat_id = c
                   /\ chat_messages'[i].is_user_message = 0
                   /\ chat_messages'[i].content = Greeting
                   /\ chat_messages'[i].created_at = chats'[c].created_at
              /\ resp'.assistant_response = Greeting
    ]_vars

\* C5 witness: a start_chat was answered 200
C5_Witness == resp.op = "start_chat" /\ resp.status = 200

\* C6: end_chat on a missing, foreign or inactive chat is answered 404 and
\* writes nothing; on an active chat of the user it goes on to its UPDATE, which
\* leaves the chat inactive and answers 200; so an end_chat that finds the chat
\* already ended is answered 404 and does not write it again
C6_EndChat ==
  [][/\ Arrives("end_chat") =>
          \A p \in Procs, c \in ChatIds, u \in Users \cup {NoUser} :
            end_chat_select_chat(p, c, u) =>
               /\ TablesUnchanged
               /\ IF BadTarget(c, u)
                  THEN resp'.op = "end_chat" /\ resp'.status = 404 /\ req' = req
                  ELSE resp' = NoRequest /\ req'[p].pc = "now" /\ req'[p].chat_id = c
     /\ \A p \in Procs :
          (At(p, "end_chat", "update") /\ StepOf(p)) =>
             /\ chats'[req[p].chat_id].is_active = 0
             /\ resp'.op = "end_chat" /\ resp'.status = 200
             /\ chat_messages' = chat_messages
    ]_vars

\* C6 witness: an end_chat was answered 404 when every chat there is had
\* already been ended
C6_Witness ==
  /\ resp.op = "end_chat" /\ resp.status = 404
  /\ \A c \in DOMAIN chats : chats[c].is_active = 0

\* the request slot p serves in this step
Served(p) == IF req[p].pc = "idle" THEN req'[p] ELSE req[p]

\* C7: a step of a send_message, end_chat or get_chat_messages request with
\* user_id u leaves every chat of another user as it is, adds no message row to
\* it, and a get_chat_messages response holds no message of it; a request that
\* is refused writes nothing
C7_Ownership ==
  [][/\ \A p \in Procs :
          (StepOf(p) /\ Served(p).op \in {"send_message", "end_chat", "get_chat_messages"}) =>
             \A c \in DOMAIN chats :
               chats[c].user_id # Served(p).user_id =>
                 /\ chats'[c] = chats[c]
                 /\ {i \in 1..Len(chat_messages') : chat_messages'[i].chat_id = c}
                      = MessagesOf(c)
                 /\ resp'.op = "get_chat_messages" =>
                      \A k \in 1..Len(resp'.rows) :
                        chat_messages[resp'.rows[k].message_id].chat_id # c
     /\ resp'.status \in {400, 404} => TablesUnchanged
    ]_vars

\* C7 witness: there are chats of two users and a send_message of one of them
\* was answered 200
C7_Witness ==
  /\ \E c, d \in DOMAIN chats : chats[c].user_id # chats[d].user_id
  /\ resp.op = "send_message" /\ resp.status = 200

\* C8 as stated: two distinct message rows of one chat never have the same
\* created_at
C8_DistinctCreatedAt ==
  \A i, j \in 1..Len(chat_messages) :
    (i # j /\ chat_messages[i].chat_id = chat_messages[j].chat_id) =>
       chat_messages[i].created_at # chat_messages[j].created_at

\* C9 as stated: get_chat_messages of the owner is answered 200 with the title,
\* is_active and all messages of the chat, whether the chat is active or ended
C9_OwnerReads ==
  (resp.op = "get_chat_messages" /\ resp.rid > 0) =>
     /\ resp.status = 200
     /\ resp.chat[1].title = chats[resp.chat_id].title
     /\ {resp.rows[k].message_id : k \in 1..Len(resp.rows)}
          = {chat_messages[i].message_id : i \in MessagesOf(resp.chat_id)}

\* C10 as stated: the rows get_user_chats reads are exactly the chats of
\* user_id, by updated_at descending, each with the content of the message
\* inserted last into it (NULL when it has none)
C10_UserChats ==
  (resp.op = "get_user_chats" /\ resp.status \in {200, 500}) =>
     LET rows == resp.rows
     IN  /\ {rows[k].chat_id : k \in 1..Len(rows)}
              = {c \in DOMAIN chats : chats[c].user_id = resp.user_id}
         /\ \A k, l \in 1..Len(rows) : k < l =>
              /\ rows[k].chat_id # rows[l].chat_id
              /\ rows[k].updated_at >= rows[l].updated_at
         /\ \A k \in 1..Len(rows) :
              rows[k].last_message =
                IF MessagesOf(rows[k].chat_id) = {} THEN Null
                ELSE chat_messages[Max(MessagesOf(rows[k].chat_id))].content

\* C11: the step of send_message that calls the completion service never ends
\* the request, whether the call fails or not, and writes nothing; when a
\* send_message whose call failed answers, the status is 200, the content is
\* the fallback text, the assistant row holds the fallback text, the user row
\* is still there and updated_at holds the request's timestamp
C11_FallbackPersisted ==
  [][/\ \A p \in Procs :
          (At(p, "send_message", "history") /\ StepOf(p)) =>
             /\ resp' = NoRequest
             /\ req'[p].pc = "insert_assistant"
             /\ TablesUnchanged
     /\ (resp'.op = "send_message" /\ resp'.rid > 0) =>
          /\ resp'.status = 200
          /\ resp'.assistant_response = Fallback =>
               LET user == chat_messages'[resp'.user_message_id]
                   assistant == chat_messages'[resp'.assistant_message_id]
               IN  /\ assistant.content = Fallback
                   /\ assistant.is_user_message = 0
                   /\ assistant.chat_id = resp'.chat_id /\ assistant.by = resp'.rid
                   /\ user.content = resp'.user_message
                   /\ user.is_user_message = 1
                   /\ user.chat_id = resp'.chat_id /\ user.by = resp'.rid
                   /\ chats'[resp'.chat_id].updated_at = resp'.now
    ]_vars

\* C11 witness: a send_message whose completion call failed was answered 200
\* with the fallback text
C11_Witness ==
  /\ resp.op = "send_message" /\ resp.status = 200
  /\ resp.assistant_response = Fallback

\* C12: a start_chat that names no user is answered 400 and one that names an
\* id with no row in users is answered 404; neither writes a chat row or a
\* message row, and the request is over with that answer
C12_StartRefused ==
  [][Arrives("start_chat") =>
       \A p \in Procs, u \in (Users \cup {NoUser, Stranger}) \ Users :
         start_chat_select_user(p, u) =>
            /\ resp'.op = "start_chat"
            /\ resp'.status = IF u = NoUser THEN 400 ELSE 404
            /\ TablesUnchanged
            /\ req' = req
    ]_vars

\* C12 witness: a start_chat for an id with no row in users was answered 404
C12_Witness == resp.op = "start_chat" /\ resp.status = 404

\* the step answers with a 4xx status, writes nothing and leaves no request
\* behind
Rejected4xx ==
  /\ resp'.status \in 400..499
  /\ TablesUnchanged
  /\ req' = req

\* C13: a start_chat, get_user_chats or get_chat_messages without user_id and a
\* send_message without message are answered with a 4xx status and write
\* nothing, whatever chat they name and whatever state it is in
C13_MissingField ==
  [][/\ Arrives("start_chat") =>
          (Rejected4xx \/ \A p \in Procs : ~start_chat_select_user(p, NoUser))
     /\ Arrives("get_user_chats") =>
          (Rejected4xx \/ \A p \in Procs : ~get_user_chats(p, NoUser))
     /\ Arrives("get_chat_messages") =>
          (Rejected4xx \/ \A p \in Procs, c \in ChatIds :
                            ~get_chat_messages_select_chat(p, c, NoUser))
     /\ Arrives("send_message") =>
          (Rejected4xx \/ \A p \in Procs, c \in ChatIds, u \in Users \cup {NoUser} :
                            ~send_message_select_chat(p, c, u, ""))
    ]_vars

\* C13 witness: a send_message was answered 400 in a state with an active chat
\* and an ended one
C13_Witness ==
  /\ resp.op = "send_message" /\ resp.status = 400
  /\ \E c, d \in DOMAIN chats : chats[c].is_active = 1 /\ chats[d].is_active = 0

\* request rid is being served
InFlight(rid) == \E p \in Procs : req[p].pc # "idle" /\ req[p].rid = rid

\* chat c was created by a start_chat that is over and has no greeting
Greetingless(c) ==
  /\ c \in DOMAIN chats
  /\ chats[c].by > 0 /\ ~InFlight(chats[c].by)
  /\ \A i \in MessagesOf(c) : chat_messages[i].by # chats[c].by

\* row i is the user message of a send_message that is over and left no
\* assistant row
Unanswered(i) ==
  /\ i \in 1..Len(chat_messages)
  /\ chat_messages[i].is_user_message = 1
  /\ ~InFlight(chat_messages[i].by)
  /\ \A j \in RowsBy(chat_messages[i].by) : chat_messages[j].is_user_message = 1

\* C14: a statement that fails takes back nothing of what the request wrote
\* before and writes nothing: a start_chat that fails leaves its chat without
\* greeting, a send_message that fails before its second INSERT leaves its user
\* message without reply; a chat left without greeting and a user message left
\* without reply stay so in every later step
C14_PartialState ==
  [][/\ (resp'.status = 500 /\ resp'.op \in {"start_chat", "send_message"}) =>
          /\ TablesUnchanged
          /\ resp'.op = "start_chat" =>
               \A c \in ChatIds : c = resp'.chat_id => Greetingless(c)'
          /\ resp'.op = "send_message" =>
               \A i \in 1..Len(chat_messages) :
                 (i = resp'.user_message_id /\ resp'.assistant_message_id = 0)
                    => Unanswered(i)'
     /\ \A c \in DOMAIN chats : Greetingless(c) => Greetingless(c)'
     /\ \A i \in 1..Len(chat_messages) : Unanswered(i) => Unanswered(i)'
    ]_vars

\* C14 witness: no request is being served, a chat has no greeting, a user
\* message has no reply and its chat's updated_at is older than the message
C14_Witness ==
  /\ \A p \in Procs : req[p].pc = "idle"
  /\ \E c \in DOMAIN chats : Greetingless(c)
  /\ \E i \in 1..Len(chat_messages) :
       /\ Unanswered(i)
       /\ chats[chat_messages[i].chat_id].updated_at < chat_messages[i].created_at

\* the entries of a message list that hold a request text
UserEntries(fm) == {k \in 1..Len(fm) : fm[k].content \in Texts}

\* the entries of a message list that hold a reply of the completion service
ReplyEntries(fm) == {k \in 1..Len(fm) : fm[k].content \in Replies \cup {Fallback}}

\* C15: the history a send_message reads is whatever rows the chat has at that
\* moment, rows of requests still being served included, and its UPDATE stores
\* its own timestamp whatever updated_at holds, a later one included; so
\* overlapping requests see each other's unanswered messages and the write
\* that comes last wins
C15_LastWriterWins ==
  [][\A p \in Procs :
       /\ (At(p, "send_message", "history") /\ StepOf(p)) =>
            LET fm == req'[p].formatted_messages
                S == MessagesOf(req[p].chat_id)
            IN  /\ Len(fm) = 1 + Cardinality(S)
                /\ \A i \in S :
                     Cardinality({k \in 2..Len(fm) : fm[k].content = chat_messages[i].content})
                       = Cardinality({j \in S : chat_messages[j].content = chat_messages[i].content})
       /\ (At(p, "send_message", "update") /\ StepOf(p)) =>
            chats'[req[p].chat_id].updated_at = req[p].now
    ]_vars

\* C15 witness: a send_message is answered whose message list held two request
\* texts more than replies (its own message and the unanswered one of an
\* overlapping request), and the updated_at it wrote is older than a message
\* row of the chat
C15_Witness ==
  /\ resp.op = "send_message" /\ resp.status = 200
  /\ Cardinality(UserEntries(resp.formatted_messages))
       >= Cardinality(ReplyEntries(resp.formatted_messages)) + 2
  /\ chats[resp.chat_id].updated_at = resp.now
  /\ \E i \in MessagesOf(resp.chat_id) :
       chat_messages[i].created_at > chats[resp.chat_id].updated_at

\* the k-th row of S in insertion order
Nth(S, k) == CHOOSE i \in S : Cardinality({j \in S : j <= i}) = k

\* C16 as stated: the message list a send_message with no request beside it
\* passes to the completion service is the system entry and then the rows of
\* the chat, once each, in insertion order, with role "user" for the rows with
\* is_user_message and "assistant" for the others, the request's own message
\* last
C16_CompletionContext ==
  [][\A p \in Procs :
       (At(p, "send_message", "history") /\ StepOf(p) /\ Alone(p)) =>
          LET fm == req'[p].formatted_messages
              S == MessagesOf(req[p].chat_id)
          IN  /\ Len(fm) = 1 + Cardinality(S)
              /\ fm[1].role = "system"
              /\ \A k \in 1..Cardinality(S) :
                   LET row == chat_messages[Nth(S, k)]
                   IN  /\ fm[k + 1].content = row.content
                       /\ fm[k + 1].role =
                            IF row.is_user_message = 1 THEN "user" ELSE "assistant"
              /\ fm[Len(fm)].content = req[p].user_message
    ]_vars

\* C17 as stated: at most one end_chat per chat is answered with success: an
\* end_chat is answered 200 only in the step that takes the chat from active to
\* inactive, so never for a chat that an earlier success has already ended
C17_OneEndSucceeds ==
  [][(resp'.op = "end_chat" /\ resp'.status = 200) =>
       chats[resp'.chat_id].is_active = 1
    ]_vars

\* C18 as stated: a chat's updated_at is never below its created_at and no step
\* lowers it
C18_UpdatedAtMonotone ==
  [][\A c \in DOMAIN chats' :
       /\ chats'[c].updated_at >= chats'[c].created_at
       /\ c \in DOMAIN chats => chats'[c].updated_at >= chats[c].updated_at
    ]_vars

\* the send_message requests that inserted a user row into chat c
SendsOn(c) ==
  {chat_messages[i].by : i \in {j \in MessagesOf(c) : chat_messages[j].is_user_message = 1}}

\* C19 as stated: when no request is being served, each chat has 1 + 2k rows,
\* k the number of send_message requests answered on it, and in insertion order
\* its rows alternate assistant, user, assistant, ..., from the greeting to the
\* last reply
C19_Alternation ==
  (\A p \in Procs : req[p].pc = "idle") =>
     \A c \in DOMAIN chats :
       LET S == MessagesOf(c)
       IN  /\ Cardinality(S) = 1 + 2 * Cardinality(SendsOn(c))
           /\ \A n \in 1..Cardinality(S) :
                chat_messages[Nth(S, n)].is_user_message = (IF n % 2 = 1 THEN 0 ELSE 1)
====
